---- MODULE Spec2Model ----
(***************************************************************************)
(* Model of the ordering application: the order-creation saga of           *)
(* OrdersService (apps/orders/src/orders.service.ts) on top of the         *)
(* transactional order store (AbstractRepository) and the billing broker   *)
(* client.  Every invocation of createOrder is a process whose position    *)
(* (pc) is the statement it is suspended at; the store and the broker are  *)
(* external collaborators whose calls succeed or fail nondeterministically.*)
(***************************************************************************)
EXTENDS Integers, Sequences, FiniteSets, TLC

\* ---------------------------------------------------------------- bounds
\* Number of createOrder invocations (concurrent HTTP requests) explored.
MaxInv == 2

Inv == 1..MaxInv

\* ------------------------------------------------------------- constants
\* Order-creation requests (CreateOrderReq: name, positive price, phone).
Requests ==
  { [name |-> "Laptop", price |-> 1200, phoneNumber |-> "+15550000"],
    [name |-> "Phone",  price |-> 300,  phoneNumber |-> "+15550001"] }

\* The event pattern of the notification (constant ORDER_CREATED).
ORDER_CREATED == "ORDER_CREATED"

\* Errors the external collaborators can raise.
SessionErrors == {"SessionFailure"}
InsertErrors  == {"StoreUnreachable"}
PublishErrors == {"BrokerUnreachable"}
AbortErrors   == {"AbortFailure"}
Errors == SessionErrors \cup InsertErrors \cup PublishErrors \cup AbortErrors

NoValue == "none"

\* Absent request, document and session.
NoRequest == [name |-> "", price |-> 0, phoneNumber |-> ""]
NoDocument == [_id |-> 0, name |-> "", price |-> 0, phoneNumber |-> ""]
NoSession == 0

\* ------------------------------------------------ authentication constants
\* Kinds of execution context a guarded call can have.
ContextTypes == {"http", "rpc", "ws"}

\* The message pattern of the validation request (constant USER_VALIDATE).
USER_VALIDATE == "USER_VALIDATE"

\* Bearer tokens presented by callers; NoToken is an absent (or empty) one.
NoToken == ""
Tokens == {"valid-123", "valid-456", "expired", "malformed"}

\* bcrypt.hash(password, 10): the stored form of a password.
hash(password) == "$2b$10$" \o password

\* Users the authority's store can hold (each with the hash of its
\* password), and the absent user.
NoUser == [_id |-> 0, email |-> "", password |-> ""]
AllUsers == { [_id |-> 1, email |-> "a@b.com", password |-> hash("pw1")],
              [_id |-> 2, email |-> "c@d.com", password |-> hash("pw2")] }

\* No exception, no reply, no validation request.
NoException == [status |-> 0, message |-> ""]
NoReply == [kind |-> "none", user |-> NoUser]
NoPayload == [pattern |-> "", data |-> [Authentication |-> NoToken]]

\* ------------------------------------------------------ users constants
\* The bodies of POST /auth/users: one with the email of a stored user, one
\* with an email no stored user has.
UserRequests ==
  { [email |-> "a@b.com",   password |-> "pw3"],
    [email |-> "new@b.com", password |-> "pw3"] }

\* The credentials presented at login.
LoginEmails == {"a@b.com", "new@b.com"}
LoginPasswords == {"pw1", "pw3"}
NoUserRequest == [email |-> "", password |-> ""]

\* The exceptions the users service and its repository throw.
UnprocessableEntityException(message) == [status |-> 422, message |-> message]
NotFoundException(message) == [status |-> 404, message |-> message]
StoreException == [status |-> 500, message |-> "Store unreachable."]

\* ------------------------------------------------------ billing constants
\* How many times the billing consumer's process may die.
MaxCrashes == 1

\* A notification is identified by its position in the history of publishes.
MsgIds == 1..MaxInv
NoMsg == 0

\* The billing microservice is connected with getOptions(QUEUE_BILLING):
\* the second argument defaults to false, so noAck is false and the broker
\* waits for the consumer's acknowledgement.
BillingNoAck_Auto == TRUE
BillingNoAck == FALSE

VARIABLES
  pc,              \* pc[i]: the statement invocation i is at
  request,         \* request[i]: the argument of createOrder
  tx,              \* tx[i]: state of the transaction of invocation i's session
  txDocs,          \* txDocs[i]: documents written inside that transaction
  commit,          \* commit[i]: the (un-awaited) commitTransaction call
  createdDocument, \* createdDocument[i]: the document built by create
  order,           \* order[i]: local `order` of createOrder
  err,             \* err[i]: the error bound by the catch clause
  result,          \* result[i]: what createOrder returned or threw
  orders,          \* the committed documents of the orders collection
  billingQueue,    \* messages accepted by the broker for the billing queue
  emitted,         \* every notification ever accepted (history)
  listed,          \* the orders the last getOrders call returned
  listKind,        \* how the last getOrders call ended: "orders", "error"
  nextId,          \* source of fresh ObjectIds
  log,             \* log[i]: the steps invocation i performed, in order
  ctx,             \* ctx[c]: the execution context of guarded call c
  guard,           \* guard[c]: where canActivate of call c stands
  rejection,       \* rejection[c]: the exception the guard threw
  cause,           \* cause[c]: what ended the guard's wait (history)
  authReq,         \* authReq[c]: the validation request sent for call c
  reply,           \* reply[c]: the authority's reply awaiting the guard
  validations,     \* every validation the authority performed (history)
  users,           \* the authority's user store
  handled,         \* handled[c]: the downstream handler of call c ran
  currentUser,     \* currentUser[c]: the user the handler read
  status,          \* status[k]: notification k is ready, unacked or acked
  inbox,           \* notifications delivered to the consumer, not yet handled
  consumer,        \* the statement handleOrderCreated is at, and its message
  crashes,         \* how many times the billing consumer died
  mlog,            \* mlog[k]: what happened to notification k, in order
  upc,             \* upc[u]: the statement createUser call u is at
  ureq,            \* ureq[u]: the request of createUser call u
  ulookup,         \* ulookup[u]: how the email lookup of call u ended
  uresult,         \* uresult[u]: what createUser call u returned or threw
  login            \* the outcome of the last validateUser (login) call

svars == << pc, request, tx, txDocs, commit, createdDocument, order, err,
            result, orders, billingQueue, emitted, listed, listKind, nextId, log >>

gvars == << ctx, guard, rejection, cause, authReq, reply, validations,
            users, handled, currentUser >>

bvars == << status, inbox, consumer, crashes, mlog >>

uvars == << upc, ureq, ulookup, uresult, login >>

\* The order service's variables the billing consumer never touches.
ovars == << pc, request, tx, txDocs, commit, createdDocument, order, err,
            result, orders, emitted, listed, listKind, nextId, log >>

vars == << pc, request, tx, txDocs, commit, createdDocument, order, err,
           result, orders, billingQueue, emitted, listed, listKind, nextId, log,
           ctx, guard, rejection, cause, authReq, reply, validations,
           users, handled, currentUser,
           status, inbox, consumer, crashes, mlog,
           upc, ureq, ulookup, uresult, login >>

Range(s) == { s[k] : k \in 1..Len(s) }

InFlight == {"startTransaction", "create", "emit", "commit", "abort"}

\* Upper bound on the steps of one invocation (never reached by the saga,
\* whose longest path has four steps).
MaxSteps == 6

\* ------------------------------------------------------ pure definitions
\* Variants of the control flow, each with one plausible slip.
\* The notification is emitted although the insert threw.
NextStep_EmitAfterFailedCreate(step, ok) ==
  CASE step = "startTransaction" -> IF ok THEN "create" ELSE "threw"
    [] step = "create"           -> "emit"
    [] step = "emit"             -> IF ok THEN "commit" ELSE "abort"
    [] step = "commit"           -> "returned"
    [] step = "abort"            -> "threw"

\* The notification is emitted before the order is inserted.
NextStep_EmitFirst(step, ok) ==
  CASE step = "startTransaction" -> IF ok THEN "emit"   ELSE "threw"
    [] step = "emit"             -> IF ok THEN "create" ELSE "abort"
    [] step = "create"           -> IF ok THEN "commit" ELSE "abort"
    [] step = "commit"           -> "returned"
    [] step = "abort"            -> "threw"

\* A failed insert is tried again.
NextStep_RetryCreate(step, ok) ==
  CASE step = "startTransaction" -> IF ok THEN "create" ELSE "threw"
    [] step = "create"           -> IF ok THEN "emit"   ELSE "create"
    [] step = "emit"             -> IF ok THEN "commit" ELSE "abort"
    [] step = "commit"           -> "returned"
    [] step = "abort"            -> "threw"

\* The commit is issued before the notification is emitted.
NextStep_CommitFirst(step, ok) ==
  CASE step = "startTransaction" -> IF ok THEN "create" ELSE "threw"
    [] step = "create"           -> IF ok THEN "commit" ELSE "abort"
    [] step = "commit"           -> "emit"
    [] step = "emit"             -> IF ok THEN "returned" ELSE "abort"
    [] step = "abort"            -> "threw"

\* The abort runs on every path (as in a finally block), also after the
\* commit was issued.
NextStep_AbortAfterCommit(step, ok) ==
  CASE step = "startTransaction" -> IF ok THEN "create" ELSE "threw"
    [] step = "create"           -> IF ok THEN "emit"   ELSE "abort"
    [] step = "emit"             -> IF ok THEN "commit" ELSE "abort"
    [] step = "commit"           -> "abort"
    [] step = "abort"            -> "threw"

\* A failed abort is tried again.
NextStep_RetryAbort(step, ok) ==
  CASE step = "startTransaction" -> IF ok THEN "create" ELSE "threw"
    [] step = "create"           -> IF ok THEN "emit"   ELSE "abort"
    [] step = "emit"             -> IF ok THEN "commit" ELSE "abort"
    [] step = "commit"           -> "returned"
    [] step = "abort"            -> IF ok THEN "threw"  ELSE "abort"

\* The control flow of createOrder's try/catch: the statement that follows
\* `step` when it succeeded (ok) or threw (~ok).  commitTransaction is not
\* awaited, so `return order` follows it whatever its outcome.
NextStep(step, ok) ==
  CASE step = "startTransaction" -> IF ok THEN "create" ELSE "threw"
    [] step = "create"           -> IF ok THEN "emit"   ELSE "abort"
    [] step = "emit"             -> IF ok THEN "commit" ELSE "abort"
    [] step = "commit"           -> "returned"
    [] step = "abort"            -> "threw"

\* The session is not handed to the repository.
CreateOptions_NoSession(i) == [session |-> NoSession]

\* Every invocation saves under one shared session.
CreateOptions_Shared(i) == [session |-> 1]

\* The save options createOrder passes to the repository: { session }.
CreateOptions(i) == [session |-> i]

\* Every document gets the same _id.
NewDocument_SameId(req, id) ==
  [_id |-> 1, name |-> req.name, price |-> req.price,
   phoneNumber |-> req.phoneNumber]

\* AbstractRepository.create: the request's fields plus a fresh _id.
NewDocument(req, id) ==
  [_id |-> id, name |-> req.name, price |-> req.price,
   phoneNumber |-> req.phoneNumber]

\* The payload is the bare request, without the { request } wrapper.
Notification_Bare(req) == [pattern |-> ORDER_CREATED, data |-> req]

\* The event createOrder emits: pattern ORDER_CREATED, payload { request }.
Notification(req) == [pattern |-> ORDER_CREATED, data |-> [request |-> req]]

\* The event is dispatched twice.
Publish_Twice(m) == << m, m >>

\* billingClient.emit dispatches the event once.
Publish(m) == << m >>

\* The name the order service registers its billing client under.
BILLING_SERVICE == "BILLING"

\* RmqModule.register({ name }): the options of the client that publishes,
\* which are the broker's address and the queue and nothing else.
register(name) ==
  [urls |-> << "RABBIT_MQ_URI" >>, queue |-> "RABBIT_MQ_" \o name \o "_QUEUE"]

\* The delivery mode billingClient.emit sends a message with: the client's
\* `persistent` option, false when the options do not set it.
Persistent(options) ==
  IF "persistent" \in DOMAIN options THEN options.persistent ELSE FALSE

\* The read throws when it finds nothing, as findOne does.
find_ThrowIfEmpty(collection) ==
  IF collection = << >>
    THEN [kind |-> "error", docs |-> << >>]
    ELSE [kind |-> "orders", docs |-> collection]

\* AbstractRepository.find(filterQuery) with the empty filter of getOrders:
\* every document of the collection, an empty array when there is none.
find(collection) == [kind |-> "orders", docs |-> collection]

\* catch (err) { await session.abortTransaction(); throw err; }
\* a rejected abortTransaction replaces the caught error.
Thrown(caught, abortOk, abortErr) == IF abortOk THEN caught ELSE abortErr

\* The order is handed back as soon as it is inserted, while the publish is
\* still awaited.
Outcome_ReturnBeforePublish(i, next, e, ord) ==
  IF next \in {"returned", "emit"}
    THEN [kind |-> "order", order |-> ord, error |-> NoValue]
  ELSE IF next = "threw"
    THEN [kind |-> "error", order |-> NoDocument, error |-> e]
  ELSE result[i]

\* What the invocation hands to its caller once it reaches `next`.
Outcome(i, next, e, ord) ==
  IF next = "returned"
    THEN [kind |-> "order", order |-> ord, error |-> NoValue]
  ELSE IF next = "threw"
    THEN [kind |-> "error", order |-> NoDocument, error |-> e]
  ELSE result[i]

Step(i, step, ok) ==
  log' = [log EXCEPT ![i] = Append(@, [step |-> step, ok |-> ok])]

\* ------------------------------------------------------------------ Init
SagaInit ==
  /\ pc = [i \in Inv |-> "idle"]
  /\ request = [i \in Inv |-> NoRequest]
  /\ tx = [i \in Inv |-> "none"]
  /\ txDocs = [i \in Inv |-> << >>]
  /\ commit = [i \in Inv |-> "none"]
  /\ createdDocument = [i \in Inv |-> NoDocument]
  /\ order = [i \in Inv |-> NoDocument]
  /\ err = [i \in Inv |-> NoValue]
  /\ result = [i \in Inv |->
                 [kind |-> "none", order |-> NoDocument, error |-> NoValue]]
  /\ orders = << >>
  /\ billingQueue = << >>
  /\ emitted = << >>
  /\ listed = << >>
  /\ listKind = "none"
  /\ nextId = 1
  /\ log = [i \in Inv |-> << >>]

\* --------------------------------------------- guard: pure definitions
\* The execution context of a call of the given type carrying `token` where
\* that type carries it: HTTP (and other) calls in the Authentication
\* cookie, RPC calls in the Authentication field of the payload.
NewContext(type, token) ==
  [type    |-> type,
   cookies |-> [Authentication |-> IF type = "rpc" THEN NoToken ELSE token],
   data    |-> [Authentication |-> IF type = "rpc" THEN token ELSE NoToken,
                user |-> NoUser],
   request |-> [user |-> NoUser]]

\* new UnauthorizedException(message); without an argument the message is
\* the default one.
UnauthorizedException(message) == [status |-> 401, message |-> message]
DefaultMessage == "Unauthorized"
NoValueMessage == "No value provided for Authentication"

\* The RPC branch reads the cookie as well.
getAuthentication_CookieOnly(context) ==
  IF context.type \in {"rpc", "http"}
    THEN context.cookies.Authentication
    ELSE NoToken

\* The guard does not look at the context type.
getAuthentication_AnyType(context) ==
  IF context.type = "rpc"
    THEN context.data.Authentication
    ELSE context.cookies.Authentication

\* JwtAuthGuard.getAuthentication: the token of the call, read from the
\* payload (rpc) or the cookie (http); NoToken when there is none, on which
\* the caller throws.
getAuthentication(context) ==
  IF context.type = "rpc" THEN context.data.Authentication
  ELSE IF context.type = "http" THEN context.cookies.Authentication
  ELSE NoToken

\* The identity is written to the request also for an RPC call.
addUser_RequestOnly(user, context) ==
  [context EXCEPT !.request.user = user]

\* JwtAuthGuard.addUser: the identity is written to data.user (rpc) or
\* request.user (http).
addUser(user, context) ==
  IF context.type = "rpc" THEN [context EXCEPT !.data.user = user]
  ELSE IF context.type = "http" THEN [context EXCEPT !.request.user = user]
  ELSE context

\* getCurrentUserByContext: where the downstream handler reads the identity.
getCurrentUserByContext(context) ==
  IF context.type = "http" THEN context.request.user
  ELSE IF context.type = "rpc" THEN context.data.user
  ELSE NoUser

\* The payload of the validation request: { Authentication: jwt }.
ValidationRequest(jwt) ==
  [pattern |-> USER_VALIDATE, data |-> [Authentication |-> jwt]]

\* A missing token is sent to the authority like any other.
MissingToken_Never(authentication) == FALSE

\* if (!authentication) throw new UnauthorizedException(...)
MissingToken(authentication) == authentication = NoToken

\* Every failure is reported with the message of the missing token.
ErrorReplyException_NoValue == UnauthorizedException(NoValueMessage)

\* catchError(() => { throw new UnauthorizedException(); })
ErrorReplyException == UnauthorizedException(DefaultMessage)

\* The guard keeps the context in a field of its own, one for all calls.
ContextOf_Shared(c) == 1

\* The context the pipe of call c writes to: tap's callback closes over the
\* `context` argument of that canActivate call.
ContextOf(c) == c

\* A rejected call is given an anonymous identity.
tap_Anonymous(rep, context) ==
  addUser(IF rep.kind = "user"
            THEN rep.user
            ELSE [_id |-> 0, email |-> "anonymous", password |-> ""],
          context)

\* tap((response) => this.addUser(response, context)): runs on a reply that
\* carries a user; an error skips it and goes to catchError.
tap(rep, context) ==
  IF rep.kind = "user" THEN addUser(rep.user, context) ELSE context

\* An error reply is swallowed and the call goes on.
Decision_SwallowError(rep) == "allowed"

\* The outcome of canActivate once the reply is in: tap lets a user through,
\* catchError turns an error into a rejection.
Decision(rep) == IF rep.kind = "user" THEN "allowed" ELSE "rejected"

\* The listing endpoint carries the guard as well.
GetOrdersGuards_Jwt(g) == g = "allowed"

\* @Get() getOrders carries no @UseGuards: its handler runs for every
\* request, whatever a guard would have decided.
GetOrdersGuards(g) == TRUE

\* The endpoint carries no guard.
UseGuards_None(g) == TRUE

\* @UseGuards(JwtAuthGuard): the handler runs only once canActivate has
\* resolved to true.
UseGuards(g) == g = "allowed"

\* ----------------------------------------- authority: pure definitions
\* The extractor looks for the token in a field the guard does not send.
jwtFromRequest_None(req) == NoToken

\* JwtStrategy's extractor: the token is the Authentication field of the
\* request it is handed.
jwtFromRequest(req) == req.Authentication

\* Verification of signature and expiry by the JWT strategy, and the
\* TokenPayload { userId } a verified token carries.
Verify(token) ==
  CASE token = "valid-123" -> [ok |-> TRUE,  userId |-> 1]
    [] token = "valid-456" -> [ok |-> TRUE,  userId |-> 2]
    [] token = "expired"   -> [ok |-> FALSE, userId |-> 1]
    [] OTHER               -> [ok |-> FALSE, userId |-> 0]

\* The lookup inserts the user when it does not exist.
getUser_Upsert(store, id) ==
  LET found == { u \in store : u._id = id }
      new   == [_id |-> id, email |-> "new@b.com", password |-> ""]
  IN  IF found # {}
        THEN [found |-> TRUE, user |-> CHOOSE u \in found : TRUE,
              store |-> store]
        ELSE [found |-> TRUE, user |-> new, store |-> store \cup {new}]

\* A user that is not found is reported as an empty identity.
getUser_NoThrow(store, id) ==
  LET found == { u \in store : u._id = id }
  IN  [found |-> TRUE,
       user  |-> IF found # {} THEN CHOOSE u \in found : TRUE ELSE NoUser,
       store |-> store]

\* UsersService.getUser -> AbstractRepository.findOne({ _id }): the stored
\* user, or NotFoundException (found = FALSE); the store is only read.
getUser(store, id) ==
  LET found == { u \in store : u._id = id }
  IN  [found |-> found # {},
       user  |-> IF found # {} THEN CHOOSE u \in found : TRUE ELSE NoUser,
       store |-> store]

\* JwtStrategy.validate: the user of the token's userId, or
\* UnauthorizedException when the lookup throws.
validate(store, userId) ==
  LET g == getUser(store, userId)
  IN  [reply |-> IF g.found THEN [kind |-> "user", user |-> g.user]
                            ELSE [kind |-> "error", user |-> NoUser],
       store |-> g.store]

\* The USER_VALIDATE handler behind the authority's JWT guard: the token is
\* extracted and verified, then validate resolves the user that
\* validateUser returns.
ValidateUser(store, payload) ==
  LET token == jwtFromRequest(payload)
      v     == Verify(token)
  IN  IF token = NoToken \/ ~v.ok
        THEN [reply |-> [kind |-> "error", user |-> NoUser], store |-> store]
        ELSE validate(store, v.userId)

\* No guarded call has arrived yet.
GuardIdle ==
  /\ ctx = [c \in Inv |-> NewContext("http", NoToken)]
  /\ guard = [c \in Inv |-> "idle"]
  /\ rejection = [c \in Inv |-> NoException]
  /\ cause = [c \in Inv |-> "none"]
  /\ authReq = [c \in Inv |-> NoPayload]
  /\ reply = [c \in Inv |-> NoReply]
  /\ validations = {}
  /\ handled = [c \in Inv |-> FALSE]
  /\ currentUser = [c \in Inv |-> NoUser]

\* ------------------------------------------- billing: pure definitions
\* The acknowledgement is sent before the billing call.
AfterStep_AckFirst(step, ok) ==
  CASE step = "receive" -> "ack"
    [] step = "ack"     -> "bill"
    [] step = "bill"    -> "idle"

\* The control flow of handleOrderCreated: bill(data), then ack(context);
\* there is no try/catch, so when bill throws the handler ends there.
AfterStep(step, ok) ==
  CASE step = "receive" -> "bill"
    [] step = "bill"    -> IF ok THEN "ack" ELSE "idle"
    [] step = "ack"     -> "idle"

\* The broker puts every message back, acknowledged or not.
Requeue_All(st) == "ready"

\* The broker forgets the messages the consumer held.
Requeue_Drop(st) == IF st = "unacked" THEN "acked" ELSE st

\* What the broker does with a message when the consumer's channel closes:
\* a delivered message that was not acknowledged is ready again.
Requeue(st) == IF st = "unacked" THEN "ready" ELSE st

\* The state of a message the broker has just delivered: with noAck the
\* delivery itself settles it.
Delivered(noAck) == IF noAck THEN "acked" ELSE "unacked"

\* The sequence without its p-th element.
RemoveAt(s, p) ==
  [j \in 1..(Len(s) - 1) |-> IF j < p THEN s[j] ELSE s[j + 1]]

\* The billing consumer is up and has received nothing.
BillingIdle ==
  /\ status = [k \in MsgIds |-> "ready"]
  /\ inbox = << >>
  /\ consumer = [state |-> "idle", msg |-> NoMsg]
  /\ crashes = 0
  /\ mlog = [k \in MsgIds |-> << >>]

\* ---------------------------------------------- users: pure definitions
\* The calls of POST /auth/users.
UserCalls == 1..MaxInv

\* bcrypt.compare(password, encrypted).
compare(password, encrypted) == encrypted = hash(password)

\* AbstractRepository.findOne({ email }): the stored user with that email,
\* or NotFoundException when there is none (it never returns null).
findOne(store, email) ==
  LET found == { u \in store : u.email = email }
  IN  IF found # {}
        THEN [kind |-> "user", user |-> CHOOSE u \in found : TRUE,
              exception |-> NoException]
        ELSE [kind |-> "error", user |-> NoUser,
              exception |-> NotFoundException("Document not found.")]

\* The local `user` of validateCreateUserRequest after its try/catch: the
\* user findOne returned; whatever findOne threw (NotFoundException or a
\* store error) is swallowed and `user` stays undefined.
LookedUp(store, email, storeOk) ==
  IF storeOk /\ findOne(store, email).kind = "user"
    THEN findOne(store, email).user
    ELSE NoUser

\* if (user) throw new UnprocessableEntityException('Email already exists.')
validateCreateUserRequest(user) ==
  IF user # NoUser
    THEN UnprocessableEntityException("Email already exists.")
    ELSE NoException

\* The ObjectId usersRepository.create gives the new user.
FreshUserId(store) ==
  1 + Cardinality(store) + Cardinality(AllUsers)

\* usersRepository.create({ ...request, password: bcrypt.hash(...) }).
NewUser(store, req) ==
  [_id |-> FreshUserId(store), email |-> req.email,
   password |-> hash(req.password)]

\* UsersService.validateUser(email, password), called by
\* LocalStrategy.validate: the stored user when the password matches.
validateUser(store, email, password) ==
  LET f == findOne(store, email)
  IN  IF f.kind # "user"
        THEN [kind |-> "error", user |-> NoUser, exception |-> f.exception]
      ELSE IF f.user = NoUser
        THEN [kind |-> "error", user |-> NoUser,
              exception |-> UnauthorizedException("Credentials are not valid.")]
      ELSE IF ~compare(password, f.user.password)
        THEN [kind |-> "error", user |-> NoUser,
              exception |-> UnauthorizedException("Credentials are not valid.")]
      ELSE [kind |-> "user", user |-> f.user, exception |-> NoException]

NoResult == [kind |-> "none", user |-> NoUser, exception |-> NoException]
NoLogin == [email |-> "", password |-> "", result |-> NoResult]

\* No createUser call has arrived and nobody has logged in.
UsersIdle ==
  /\ upc = [u \in UserCalls |-> "idle"]
  /\ ureq = [u \in UserCalls |-> NoUserRequest]
  /\ ulookup = [u \in UserCalls |-> "none"]
  /\ uresult = [u \in UserCalls |-> NoResult]
  /\ login = NoLogin

\* The order service on its own: createOrder invoked directly.
Init == SagaInit /\ GuardIdle /\ BillingIdle /\ UsersIdle /\ users = AllUsers

\* The guarded services next to an authority whose store holds any users.
GuardInit ==
  /\ SagaInit /\ GuardIdle /\ BillingIdle /\ UsersIdle
  /\ users \in SUBSET AllUsers

\* --------------------------------------------------------------- actions
\* A caller invokes createOrder(request); the invocation suspends on
\* `await this.ordersRepository.startTransaction()`.
CreateOrder(i, r) ==
  /\ pc[i] = "idle"
  /\ pc' = [pc EXCEPT ![i] = "startTransaction"]
  /\ request' = [request EXCEPT ![i] = r]
  /\ UNCHANGED << tx, txDocs, commit, createdDocument, order, err, result,
                  orders, billingQueue, emitted, listed, listKind, nextId, log >>

\* startTransaction resolves: a session with a started transaction, or an
\* error thrown outside the try block.
StartTransaction(i, ok, e) ==
  /\ pc[i] = "startTransaction"
  /\ Len(log[i]) < MaxSteps
  /\ LET next == NextStep("startTransaction", ok) IN
       /\ pc' = [pc EXCEPT ![i] = next]
       /\ result' = [result EXCEPT ![i] = Outcome(i, next, e, order[i])]
  /\ tx' = [tx EXCEPT ![i] = IF ok THEN "open" ELSE @]
  /\ Step(i, "startTransaction", ok)
  /\ UNCHANGED << request, txDocs, commit, createdDocument, order, err,
                  orders, billingQueue, emitted, listed, listKind, nextId >>

\* ordersRepository.create(request, { session }) resolves: the document is
\* built with a fresh _id and saved under the options' session (a save
\* without a session is written to the collection at once).
Create(i, ok, e) ==
  /\ pc[i] = "create"
  /\ Len(log[i]) < MaxSteps
  /\ LET doc  == NewDocument(request[i], nextId)
         next == NextStep("create", ok)
         ord  == IF ok THEN doc ELSE order[i]
     IN
       /\ createdDocument' = [createdDocument EXCEPT ![i] = doc]
       /\ nextId' = nextId + 1
       /\ order' = [order EXCEPT ![i] = ord]
       /\ err' = [err EXCEPT ![i] = IF ok THEN @ ELSE e]
       /\ IF ok /\ CreateOptions(i).session = NoSession
            THEN /\ orders' = Append(orders, doc)
                 /\ txDocs' = txDocs
            ELSE /\ orders' = orders
                 /\ txDocs' = [txDocs EXCEPT ![CreateOptions(i).session] =
                                 IF ok THEN Append(@, doc) ELSE @]
       /\ pc' = [pc EXCEPT ![i] = next]
       /\ result' = [result EXCEPT ![i] = Outcome(i, next, e, ord)]
  /\ Step(i, "create", ok)
  /\ UNCHANGED << request, tx, commit, billingQueue, emitted, listed, listKind >>

\* lastValueFrom(billingClient.emit(ORDER_CREATED, { request })) resolves:
\* the broker accepted the notification, or the publish failed.
Emit(i, ok, e) ==
  /\ pc[i] = "emit"
  /\ Len(log[i]) < MaxSteps
  /\ LET next == NextStep("emit", ok)
         sent == IF ok THEN Publish(Notification(request[i])) ELSE << >>
     IN
       /\ billingQueue' = billingQueue \o sent
       /\ emitted' = emitted \o
            [k \in 1..Len(sent) |->
               [inv |-> i, msg |-> sent[k],
                persistent |-> Persistent(register(BILLING_SERVICE))]]
       /\ err' = [err EXCEPT ![i] = IF ok THEN @ ELSE e]
       /\ pc' = [pc EXCEPT ![i] = next]
       /\ result' = [result EXCEPT ![i] = Outcome(i, next, e, order[i])]
  /\ Step(i, "emit", ok)
  /\ UNCHANGED << request, tx, txDocs, commit, createdDocument, order,
                  orders, listed, listKind, nextId >>

\* session.commitTransaction(); return order;
\* the commit is issued and, without awaiting it, the order is returned.
CommitTransaction(i) ==
  /\ pc[i] = "commit"
  /\ Len(log[i]) < MaxSteps
  /\ commit' = [commit EXCEPT ![i] = "pending"]
  /\ LET next == NextStep("commit", TRUE) IN
       /\ pc' = [pc EXCEPT ![i] = next]
       /\ result' = [result EXCEPT ![i] = Outcome(i, next, NoValue, order[i])]
  /\ Step(i, "commit", TRUE)
  /\ UNCHANGED << request, tx, txDocs, createdDocument, order, err, orders,
                  billingQueue, emitted, listed, listKind, nextId >>

\* The store finishes a pending commit: the transaction's documents become
\* part of the collection, or the commit fails and nothing is written.
CommitCompletes(i, ok) ==
  /\ commit[i] = "pending"
  /\ IF ok /\ tx[i] = "open"
       THEN /\ commit' = [commit EXCEPT ![i] = "ok"]
            /\ tx' = [tx EXCEPT ![i] = "committed"]
            /\ orders' = orders \o txDocs[i]
       ELSE /\ commit' = [commit EXCEPT ![i] = "failed"]
            /\ UNCHANGED << tx, orders >>
  /\ UNCHANGED << pc, request, txDocs, createdDocument, order, err, result,
                  billingQueue, emitted, listed, listKind, nextId, log >>

\* catch (err) { await session.abortTransaction(); throw err; }
AbortTransaction(i, ok, e) ==
  /\ pc[i] = "abort"
  /\ Len(log[i]) < MaxSteps
  /\ tx' = [tx EXCEPT ![i] = IF ok /\ @ = "open" THEN "aborted" ELSE @]
  /\ txDocs' = [txDocs EXCEPT ![i] = IF ok THEN << >> ELSE @]
  /\ LET next == NextStep("abort", ok) IN
       /\ pc' = [pc EXCEPT ![i] = next]
       /\ result' = [result EXCEPT ![i] =
                       Outcome(i, next, Thrown(err[i], ok, e), order[i])]
  /\ Step(i, "abort", ok)
  /\ UNCHANGED << request, commit, createdDocument, order, err, orders,
                  billingQueue, emitted, listed, listKind, nextId >>

\* getOrders: ordersRepository.find({}), an unfiltered read of the
\* collection.
GetOrders ==
  /\ listed' = find(orders).docs
  /\ listKind' = find(orders).kind
  /\ UNCHANGED << pc, request, tx, txDocs, commit, createdDocument, order,
                  err, result, orders, billingQueue, emitted, nextId, log >>
  /\ UNCHANGED << gvars, bvars, uvars >>

\* The order service's process dies: every invocation in flight stops where
\* it is and never resumes.
Crash ==
  /\ \E i \in Inv : pc[i] \in InFlight
  /\ pc' = [i \in Inv |-> IF pc[i] \in InFlight THEN "crashed" ELSE pc[i]]
  /\ log' = [i \in Inv |-> IF pc[i] \in InFlight
                             THEN Append(log[i], [step |-> "crash", ok |-> FALSE])
                             ELSE log[i]]
  /\ UNCHANGED << request, tx, txDocs, commit, createdDocument, order, err,
                  result, orders, billingQueue, emitted, listed, listKind, nextId >>
  /\ UNCHANGED << gvars, bvars, uvars >>

\* ------------------------------------------------ guard and authority
\* A call of the given type arrives carrying `token` and JwtAuthGuard's
\* canActivate runs: without a token it throws at once, otherwise it sends
\* the USER_VALIDATE request and waits for the reply.
CanActivate(c, type, token) ==
  /\ guard[c] = "idle"
  /\ LET context == NewContext(type, token)
         authenticationJwt == getAuthentication(context)
     IN
       /\ ctx' = [ctx EXCEPT ![c] = context]
       /\ IF MissingToken(authenticationJwt)
            THEN /\ guard' = [guard EXCEPT ![c] = "rejected"]
                 /\ rejection' = [rejection EXCEPT ![c] =
                                    UnauthorizedException(NoValueMessage)]
                 /\ cause' = [cause EXCEPT ![c] = "missing"]
                 /\ authReq' = authReq
            ELSE /\ guard' = [guard EXCEPT ![c] = "sent"]
                 /\ rejection' = rejection
                 /\ cause' = cause
                 /\ authReq' = [authReq EXCEPT ![c] =
                                  ValidationRequest(authenticationJwt)]
  /\ UNCHANGED << reply, validations, users, handled,
                  currentUser >>
  /\ UNCHANGED svars
  /\ UNCHANGED << bvars, uvars >>

\* The authority consumes the validation request of call c and replies.
\* The auth queue is consumed with noAck, so a request is delivered at most
\* once; the same token is validated again only when another call sends it.
AuthValidate(c) ==
  /\ authReq[c].pattern = USER_VALIDATE
  /\ reply[c] = NoReply
  /\ LET v == ValidateUser(users, authReq[c].data) IN
       /\ users' = v.store
       /\ validations' = validations \cup
            { [token |-> jwtFromRequest(authReq[c].data), store |-> users,
               reply |-> v.reply] }
       /\ reply' = [reply EXCEPT ![c] = v.reply]
  /\ UNCHANGED << ctx, guard, rejection, cause, authReq, handled,
                  currentUser >>
  /\ UNCHANGED svars
  /\ UNCHANGED << bvars, uvars >>

\* The reply reaches the waiting guard: tap attaches the user and the call
\* is allowed; catchError turns an error reply into UnauthorizedException.
ReceiveReply(c) ==
  /\ guard[c] = "sent"
  /\ reply[c] # NoReply
  /\ guard' = [guard EXCEPT ![c] = Decision(reply[c])]
  /\ ctx' = [ctx EXCEPT ![ContextOf(c)] = tap(reply[c], @)]
  /\ rejection' = IF Decision(reply[c]) = "rejected"
                    THEN [rejection EXCEPT ![c] = ErrorReplyException]
                    ELSE rejection
  /\ cause' = [cause EXCEPT ![c] = "reply"]
  /\ UNCHANGED << authReq, reply, validations, users, handled,
                  currentUser >>
  /\ UNCHANGED svars
  /\ UNCHANGED << bvars, uvars >>

\* The request/reply channel fails while the guard waits: the observable
\* errors and catchError throws UnauthorizedException.
ChannelError(c) ==
  /\ guard[c] = "sent"
  /\ guard' = [guard EXCEPT ![c] = "rejected"]
  /\ rejection' = [rejection EXCEPT ![c] = ErrorReplyException]
  /\ cause' = [cause EXCEPT ![c] = "channel"]
  /\ UNCHANGED << ctx, authReq, reply, validations, users,
                  handled, currentUser >>
  /\ UNCHANGED svars
  /\ UNCHANGED << bvars, uvars >>

\* The downstream handler of an allowed call runs and reads the current
\* user; the handler of an HTTP call is OrdersController.createOrder, which
\* invokes OrdersService.createOrder with the request body.
Handle(c) ==
  /\ UseGuards(guard[c])
  /\ ~handled[c]
  /\ handled' = [handled EXCEPT ![c] = TRUE]
  /\ currentUser' = [currentUser EXCEPT ![c] = getCurrentUserByContext(ctx[c])]
  /\ IF ctx[c].type = "http"
       THEN \E r \in Requests : CreateOrder(c, r)
       ELSE UNCHANGED svars
  /\ UNCHANGED << ctx, guard, rejection, cause, authReq, reply,
                  validations, users >>
  /\ UNCHANGED << bvars, uvars >>

\* ------------------------------------------------ billing consumer
\* The notifications waiting in the queue for delivery.
Ready == { k \in MsgIds : k <= Len(emitted) /\ status[k] = "ready" }

\* Where notification k stands in the queue: acknowledged ones are gone.
QueuePos(k) == Cardinality({ j \in 1..k : status[j] # "acked" })

\* The queue after the broker settled notification k as `st`.
Settle(k, st) ==
  IF st = "acked" /\ status[k] # "acked"
    THEN RemoveAt(billingQueue, QueuePos(k))
    ELSE billingQueue

\* The broker delivers the first waiting notification to the consumer.
Deliver ==
  /\ consumer.state # "down"
  /\ Ready # {}
  /\ LET k  == CHOOSE j \in Ready : \A h \in Ready : j <= h
         st == Delivered(BillingNoAck)
     IN
       /\ status' = [status EXCEPT ![k] = st]
       /\ billingQueue' = Settle(k, st)
       /\ inbox' = Append(inbox, k)
       /\ mlog' = [mlog EXCEPT ![k] = Append(@, "deliver")]
  /\ UNCHANGED << consumer, crashes >>
  /\ UNCHANGED << ovars, gvars, uvars >>

\* handleOrderCreated is invoked with the next delivered notification.
HandleOrderCreated ==
  /\ consumer.state = "idle"
  /\ inbox # << >>
  /\ consumer' = [state |-> AfterStep("receive", TRUE), msg |-> Head(inbox)]
  /\ inbox' = Tail(inbox)
  /\ UNCHANGED << status, crashes, mlog >>
  /\ UNCHANGED << svars, gvars, uvars >>

\* this.billingService.bill(data) returns, or throws.
Bill(ok) ==
  /\ consumer.state = "bill"
  /\ LET k == consumer.msg
         n == AfterStep("bill", ok)
     IN
       /\ mlog' = [mlog EXCEPT ![k] =
                     Append(@, IF ok THEN "bill" ELSE "billfail")]
       /\ consumer' = [state |-> n, msg |-> IF n = "idle" THEN NoMsg ELSE k]
  /\ UNCHANGED << status, inbox, crashes >>
  /\ UNCHANGED << svars, gvars, uvars >>

\* this.rmqService.ack(context): channel.ack(originalMessage) removes the
\* message from the queue.
Ack ==
  /\ consumer.state = "ack"
  /\ LET k == consumer.msg
         n == AfterStep("ack", TRUE)
     IN
       /\ status' = [status EXCEPT ![k] = "acked"]
       /\ billingQueue' = Settle(k, "acked")
       /\ mlog' = [mlog EXCEPT ![k] = Append(@, "ack")]
       /\ consumer' = [state |-> n, msg |-> IF n = "idle" THEN NoMsg ELSE k]
  /\ UNCHANGED << inbox, crashes >>
  /\ UNCHANGED << ovars, gvars, uvars >>

\* The billing consumer's process dies: its channel closes, the handler in
\* progress is lost and the broker requeues what was not acknowledged.
BillingCrash ==
  /\ consumer.state # "down"
  /\ crashes < MaxCrashes
  /\ crashes' = crashes + 1
  /\ consumer' = [state |-> "down", msg |-> NoMsg]
  /\ inbox' = << >>
  /\ status' = [k \in MsgIds |-> Requeue(status[k])]
  /\ mlog' = [k \in MsgIds |->
               IF k = consumer.msg THEN Append(mlog[k], "crash")
               ELSE IF status[k] = "unacked" THEN Append(mlog[k], "requeue")
               ELSE mlog[k]]
  /\ UNCHANGED << svars, gvars, uvars >>

\* bootstrap: the billing consumer starts again and listens on the queue.
BillingRestart ==
  /\ consumer.state = "down"
  /\ consumer' = [state |-> "idle", msg |-> NoMsg]
  /\ UNCHANGED << status, inbox, crashes, mlog >>
  /\ UNCHANGED << svars, gvars, uvars >>

DoBill == \E ok \in BOOLEAN : Bill(ok)

DoCreateOrder ==
  \E i \in Inv, r \in Requests : CreateOrder(i, r) /\ UNCHANGED << gvars, bvars, uvars >>
DoStartTransaction ==
  \E i \in Inv, ok \in BOOLEAN, e \in SessionErrors :
    StartTransaction(i, ok, e) /\ UNCHANGED << gvars, bvars, uvars >>
DoCreate ==
  \E i \in Inv, ok \in BOOLEAN, e \in InsertErrors :
    Create(i, ok, e) /\ UNCHANGED << gvars, bvars, uvars >>
DoEmit ==
  \E i \in Inv, ok \in BOOLEAN, e \in PublishErrors :
    Emit(i, ok, e) /\ UNCHANGED << gvars, bvars, uvars >>
DoCommitTransaction ==
  \E i \in Inv : CommitTransaction(i) /\ UNCHANGED << gvars, bvars, uvars >>
DoCommitCompletes ==
  \E i \in Inv, ok \in BOOLEAN : CommitCompletes(i, ok) /\ UNCHANGED << gvars, bvars, uvars >>
DoAbortTransaction ==
  \E i \in Inv, ok \in BOOLEAN, e \in AbortErrors :
    AbortTransaction(i, ok, e) /\ UNCHANGED << gvars, bvars, uvars >>

DoCanActivate ==
  \E c \in Inv, type \in ContextTypes, token \in Tokens \cup {NoToken} :
    CanActivate(c, type, token)
\* A POST /orders request arrives at the guarded order-creation endpoint,
\* with no cookie or with one token of each kind (the handler does not
\* depend on which user the token names).
PostTokens == {NoToken, "valid-123", "expired", "malformed"}
DoPostOrder ==
  \E c \in Inv, token \in PostTokens : CanActivate(c, "http", token)
DoAuthValidate == \E c \in Inv : AuthValidate(c)
DoReceiveReply == \E c \in Inv : ReceiveReply(c)
DoChannelError == \E c \in Inv : ChannelError(c)
DoHandle == \E c \in Inv : Handle(c)
\* A GET /orders request arrives: OrdersController.getOrders calls
\* OrdersService.getOrders.
DoGetOrders == \E c \in Inv : GetOrdersGuards(guard[c]) /\ GetOrders

Next ==
  \/ DoCreateOrder
  \/ DoStartTransaction
  \/ DoCreate
  \/ DoEmit
  \/ DoCommitTransaction
  \/ DoCommitCompletes
  \/ DoAbortTransaction
  \/ GetOrders
  \/ Crash

Spec == Init /\ [][Next]_vars

\* The guard in front of the handlers, and the authority answering it.
GuardNext ==
  \/ DoCanActivate
  \/ DoAuthValidate
  \/ DoReceiveReply
  \/ DoChannelError
  \/ DoHandle

GuardSpec == GuardInit /\ [][GuardNext]_vars

\* A reply that has arrived is handed to the waiting guard: the client's
\* subscriber runs on the event loop as soon as the reply is there.  Whether
\* the authority replies, and whether the channel fails, is up to the
\* environment and carries no fairness.
GuardFairSpec == GuardSpec /\ WF_vars(DoReceiveReply)

\* The orders service as deployed: createOrder is reachable only through
\* the guarded POST /orders endpoint, and then runs its steps; GET /orders
\* lists the orders.
OrdersNext ==
  \/ DoPostOrder
  \/ DoGetOrders
  \/ DoAuthValidate
  \/ DoReceiveReply
  \/ DoChannelError
  \/ DoHandle
  \/ DoStartTransaction
  \/ DoCreate
  \/ DoEmit
  \/ DoCommitTransaction
  \/ DoCommitCompletes
  \/ DoAbortTransaction

OrdersSpec == Init /\ [][OrdersNext]_vars

\* Every invocation of createOrder has inserted its order and is about to
\* publish the notification (invocation i got the i-th fresh id; consecutive
\* invocations carry different requests).
AtPublish ==
  /\ request \in [Inv -> Requests]
  /\ \A i \in Inv \ {1} : request[i] # request[i - 1]
  /\ pc = [i \in Inv |-> "emit"]
  /\ tx = [i \in Inv |-> "open"]
  /\ createdDocument = [i \in Inv |-> NewDocument(request[i], i)]
  /\ txDocs = [i \in Inv |-> << createdDocument[i] >>]
  /\ order = createdDocument
  /\ commit = [i \in Inv |-> "none"]
  /\ err = [i \in Inv |-> NoValue]
  /\ result = [i \in Inv |->
                 [kind |-> "none", order |-> NoDocument, error |-> NoValue]]
  /\ orders = << >>
  /\ billingQueue = << >>
  /\ emitted = << >>
  /\ listed = << >>
  /\ listKind = "none"
  /\ nextId = MaxInv + 1
  /\ log = [i \in Inv |-> << [step |-> "startTransaction", ok |-> TRUE],
                              [step |-> "create", ok |-> TRUE] >>]

BillingInit ==
  AtPublish /\ GuardIdle /\ BillingIdle /\ UsersIdle /\ users = AllUsers

\* The order service publishing and the billing consumer behind the queue.
BillingNext ==
  \/ DoEmit
  \/ Deliver
  \/ HandleOrderCreated
  \/ DoBill
  \/ Ack
  \/ BillingCrash
  \/ BillingRestart

BillingSpec == BillingInit /\ [][BillingNext]_vars

\* ------------------------------------------------------ users service
\* The frame of a step of the users service: of the authority's variables
\* only the user store may change.
UsersFrame ==
  /\ UNCHANGED << ctx, guard, rejection, cause, authReq, reply, validations,
                  handled, currentUser >>
  /\ UNCHANGED << svars, bvars >>

\* POST /auth/users arrives: UsersController.createUser calls
\* UsersService.createUser(request).
CreateUser(u, req) ==
  /\ upc[u] = "idle"
  /\ upc' = [upc EXCEPT ![u] = "validate"]
  /\ ureq' = [ureq EXCEPT ![u] = req]
  /\ UNCHANGED << ulookup, uresult, login, users >>
  /\ UsersFrame

\* await this.validateCreateUserRequest(request): the email is looked up
\* (the store answers, or the lookup fails with a store error) and the
\* call throws when the lookup returned a user.
ValidateCreateUserRequest(u, storeOk) ==
  /\ upc[u] = "validate"
  /\ LET user == LookedUp(users, ureq[u].email, storeOk)
         exception == validateCreateUserRequest(user)
     IN
       /\ ulookup' = [ulookup EXCEPT ![u] =
                        IF ~storeOk THEN "error"
                        ELSE IF user # NoUser THEN "found" ELSE "notfound"]
       /\ IF exception # NoException
            THEN /\ upc' = [upc EXCEPT ![u] = "threw"]
                 /\ uresult' = [uresult EXCEPT ![u] =
                                  [kind |-> "error", user |-> NoUser,
                                   exception |-> exception]]
            ELSE /\ upc' = [upc EXCEPT ![u] = "create"]
                 /\ uresult' = uresult
  /\ UNCHANGED << ureq, login, users >>
  /\ UsersFrame

\* await this.usersRepository.create({...request, password: hash}): the
\* user is inserted and returned, or the insert fails with a store error.
InsertUser(u, storeOk) ==
  /\ upc[u] = "create"
  /\ LET user == NewUser(users, ureq[u]) IN
       IF storeOk
         THEN /\ users' = users \cup {user}
              /\ upc' = [upc EXCEPT ![u] = "returned"]
              /\ uresult' = [uresult EXCEPT ![u] =
                               [kind |-> "user", user |-> user,
                                exception |-> NoException]]
         ELSE /\ users' = users
              /\ upc' = [upc EXCEPT ![u] = "threw"]
              /\ uresult' = [uresult EXCEPT ![u] =
                               [kind |-> "error", user |-> NoUser,
                                exception |-> StoreException]]
  /\ UNCHANGED << ureq, ulookup, login >>
  /\ UsersFrame

\* A login: LocalStrategy.validate(email, password) returns what
\* UsersService.validateUser returns or throws.
Login(email, password) ==
  /\ login' = [email |-> email, password |-> password,
               result |-> validateUser(users, email, password)]
  /\ UNCHANGED << upc, ureq, ulookup, uresult, users >>
  /\ UsersFrame

DoCreateUser == \E u \in UserCalls, req \in UserRequests : CreateUser(u, req)
DoValidateCreateUserRequest ==
  \E u \in UserCalls, storeOk \in BOOLEAN : ValidateCreateUserRequest(u, storeOk)
DoInsertUser == \E u \in UserCalls, storeOk \in BOOLEAN : InsertUser(u, storeOk)
DoLogin == \E email \in LoginEmails, password \in LoginPasswords : Login(email, password)

UsersInit ==
  SagaInit /\ GuardIdle /\ BillingIdle /\ UsersIdle /\ users = AllUsers

\* The users service of the authority: registrations and logins.
UsersNext ==
  \/ DoCreateUser
  \/ DoValidateCreateUserRequest
  \/ DoInsertUser
  \/ DoLogin

UsersSpec == UsersInit /\ [][UsersNext]_vars

\* ------------------------------------------------- vocabulary of the claims
\* Invocation i performed `step` with outcome ok.
Did(i, step, ok) ==
  \E k \in 1..Len(log[i]) : log[i][k] = [step |-> step, ok |-> ok]

\* How many times invocation i performed `step`.
Attempts(i, step) ==
  Cardinality({ k \in 1..Len(log[i]) : log[i][k].step = step })

\* The notifications accepted by the broker for invocation i.
NotifiedFor(i) == { k \in 1..Len(emitted) : emitted[k].inv = i }

\* The document of invocation i is in the collection / in the last listing.
InStore(i) ==
  createdDocument[i] # NoDocument /\ createdDocument[i] \in Range(orders)
Listed(i) ==
  createdDocument[i] # NoDocument /\ createdDocument[i] \in Range(listed)

Ended(i) == pc[i] \in {"returned", "threw"}

\* ---------------------------------------------------------------- claims
\* C1: when the insert of a createOrder invocation fails, no notification
\* is published (the publish is not even attempted), the saga aborts the
\* transaction (abortTransaction is called once, commit never, and the
\* transaction is aborted once that call succeeds), the caller gets an
\* error and no order, and the order is never in the store or in a listing.
C1_InsertFailure ==
  \A i \in Inv : Did(i, "create", FALSE) =>
    /\ NotifiedFor(i) = {}
    /\ Attempts(i, "emit") = 0
    /\ Attempts(i, "commit") = 0 /\ commit[i] = "none"
    /\ tx[i] # "committed"
    /\ ~InStore(i) /\ ~Listed(i)
    /\ result[i].kind # "order"
    /\ pc[i] \in {"abort", "threw", "crashed"}
    /\ pc[i] = "threw" =>
         /\ Attempts(i, "abort") = 1
         /\ result[i].kind = "error"
         /\ Did(i, "abort", TRUE) => tx[i] = "aborted"

C1_Witness ==
  \E i \in Inv :
    /\ pc[i] = "threw" /\ Did(i, "create", FALSE)
    /\ tx[i] = "aborted" /\ result[i].error \in InsertErrors

\* C2 (as claimed): when the insert succeeds and the publish fails, the
\* saga aborts the transaction, the caller gets the publish error, and the
\* order is never in the store nor in a later listing.
C2_PublishFailureSurfaced ==
  \A i \in Inv :
    (Did(i, "create", TRUE) /\ Did(i, "emit", FALSE) /\ pc[i] = "threw") =>
      /\ Attempts(i, "abort") = 1
      /\ ~InStore(i) /\ ~Listed(i)
      /\ result[i].kind = "error"
      /\ result[i].error \in PublishErrors
      /\ result[i].error = err[i]

\* C3: when insert and publish both succeeded, exactly one notification,
\* carrying the request, was sent for the invocation, and once its
\* transaction is committed the order is in the collection getOrders reads
\* (and in every listing that shows the collection of that moment).
C3_SuccessVisibleAndNotifiedOnce ==
  \A i \in Inv :
    /\ (Did(i, "create", TRUE) /\ Did(i, "emit", TRUE)) =>
         /\ Cardinality(NotifiedFor(i)) = 1
         /\ \A k \in NotifiedFor(i) :
              emitted[k].msg = Notification(request[i])
         /\ tx[i] = "committed" => InStore(i)
         /\ (tx[i] = "committed" /\ listed = orders) => Listed(i)
    /\ Cardinality(NotifiedFor(i)) <= 1

C3_Witness ==
  \E i \in Inv :
    /\ Did(i, "create", TRUE) /\ Did(i, "emit", TRUE)
    /\ tx[i] = "committed" /\ Listed(i)
    /\ Cardinality(NotifiedFor(i)) = 1

\* C4: in one invocation the publish is issued only after the insert
\* completed successfully, the commit only after the publish was confirmed,
\* and no commit is issued when the insert or the publish failed.
C4_StepOrder ==
  \A i \in Inv : \A k \in 1..Len(log[i]) :
    /\ log[i][k].step = "create" =>
         \E j \in 1..(k-1) : log[i][j] = [step |-> "startTransaction", ok |-> TRUE]
    /\ log[i][k].step = "emit" =>
         \E j \in 1..(k-1) : log[i][j] = [step |-> "create", ok |-> TRUE]
    /\ log[i][k].step = "commit" =>
         /\ \E j \in 1..(k-1) : log[i][j] = [step |-> "emit", ok |-> TRUE]
         /\ ~Did(i, "create", FALSE)
         /\ ~Did(i, "emit", FALSE)

C4_Witness ==
  \E i \in Inv :
    log[i] = << [step |-> "startTransaction", ok |-> TRUE],
                [step |-> "create", ok |-> TRUE],
                [step |-> "emit", ok |-> TRUE],
                [step |-> "commit", ok |-> TRUE] >>

\* C5 (as claimed): an order is in the store if and only if the invocation
\* that inserted it reached its commit step (issued commitTransaction).
C5_StoredIffCommitStepReached ==
  \A i \in Inv : InStore(i) <=> Did(i, "commit", TRUE)

\* C5 (amended): an order is in the store exactly when the commit of the
\* transaction that inserted it has completed successfully; every stored or
\* listed order belongs to a committed transaction, so an order of an open
\* or aborted transaction, or of one whose commit is pending or failed, is
\* never visible.
C5_StoredIffCommitted ==
  /\ \A i \in Inv : InStore(i) <=> tx[i] = "committed"
  /\ \A i \in Inv : InStore(i) => Did(i, "commit", TRUE)
  /\ \A i \in Inv : commit[i] \in {"pending", "failed"} => ~InStore(i)
  /\ \A d \in Range(orders) \cup Range(listed) :
       \E i \in Inv : createdDocument[i] = d /\ tx[i] = "committed"

C5_Witness ==
  \E i, j \in Inv :
    /\ tx[i] = "committed" /\ InStore(i)
    /\ tx[j] = "open" /\ commit[j] = "failed" /\ ~InStore(j)

\* C6 (as claimed): createOrder returns the order only after the commit
\* call has finished.
C6_ReturnsAfterCommit ==
  \A i \in Inv : pc[i] = "returned" => commit[i] \in {"ok", "failed"}

\* C7 (as claimed): an invocation that opened a transaction never ends with
\* that transaction neither committed nor aborted.
C7_SessionReleased ==
  \A i \in Inv :
    (Ended(i) /\ Did(i, "startTransaction", TRUE)) =>
      tx[i] \in {"committed", "aborted"}

\* C8 (as claimed): when the insert or the publish failed, the error the
\* caller gets is the store's or broker's error that was caught, also when
\* the abort call fails.
C8_OriginalErrorSurfaced ==
  \A i \in Inv :
    (pc[i] = "threw" /\ (Did(i, "create", FALSE) \/ Did(i, "emit", FALSE))) =>
      result[i] = [kind |-> "error", order |-> NoDocument, error |-> err[i]]

\* C9: one invocation makes at most one insert attempt and at most one
\* publish attempt, whatever fails.
C9_NoRetry ==
  \A i \in Inv : Attempts(i, "create") <= 1 /\ Attempts(i, "emit") <= 1

C9_Witness ==
  \E i, j \in Inv :
    /\ pc[i] = "threw" /\ Did(i, "create", FALSE) /\ Did(i, "abort", FALSE)
    /\ pc[j] = "threw" /\ Did(j, "emit", FALSE)

\* C10: whenever the process crashed after the publish and before issuing
\* the commit, or the commit failed, the notification of that invocation is
\* with the broker while no committed order of it exists.
CrashedBeforeCommit(i) ==
  /\ pc[i] = "crashed"
  /\ Len(log[i]) >= 2
  /\ log[i][Len(log[i]) - 1] = [step |-> "emit", ok |-> TRUE]

C10_NotifiedWithoutOrder ==
  \A i \in Inv :
    (CrashedBeforeCommit(i) \/ commit[i] = "failed") =>
      /\ Cardinality(NotifiedFor(i)) = 1
      /\ ~InStore(i)
      /\ tx[i] # "committed"

C10_Witness ==
  \E i, j \in Inv :
    /\ CrashedBeforeCommit(i) /\ NotifiedFor(i) # {} /\ ~InStore(i)
    /\ commit[j] = "failed" /\ pc[j] = "returned"
    /\ NotifiedFor(j) # {} /\ ~InStore(j)
\* C11: when the commit fails after a successful publish, createOrder has
\* returned the created order all the same: the caller got the order and no
\* error, and no abort was issued for the transaction.
C11_CommitFailureIgnored ==
  \A i \in Inv :
    (Did(i, "emit", TRUE) /\ commit[i] = "failed") =>
      /\ pc[i] = "returned"
      /\ result[i] = [kind |-> "order", order |-> order[i], error |-> NoValue]
      /\ order[i] # NoDocument /\ order[i] = createdDocument[i]
      /\ Attempts(i, "abort") = 0
      /\ tx[i] # "aborted"

C11_Witness ==
  \E i \in Inv :
    /\ Did(i, "emit", TRUE) /\ commit[i] = "failed"
    /\ result[i].kind = "order" /\ Attempts(i, "abort") = 0

\* ------------------------------------------------ guard: claim vocabulary
\* The token the caller of call c presented, where a call of its type
\* carries it.
Presented(c) ==
  IF ctx[c].type = "rpc" THEN ctx[c].data.Authentication
                         ELSE ctx[c].cookies.Authentication

Unauthenticated(c) == guard[c] = "rejected" /\ rejection[c].status = 401

\* C12: a call that carries no token (HTTP: no Authentication cookie; RPC:
\* no Authentication field in the payload) is rejected at once with
\* Unauthenticated, and no validation request is sent for it: the guard
\* never waits, the authority gets nothing and never replies.
C12_NoTokenNoRequest ==
  \A c \in Inv :
    ( /\ guard[c] # "idle"
      /\ ctx[c].type \in {"http", "rpc"}
      /\ Presented(c) = NoToken ) =>
        /\ Unauthenticated(c)
        /\ authReq[c] = NoPayload
        /\ reply[c] = NoReply
        /\ \A v \in validations : v.token # NoToken

C12_Witness ==
  \E c1, c2 \in Inv :
    /\ ctx[c1].type = "http" /\ ctx[c1].cookies.Authentication = NoToken
    /\ ctx[c2].type = "rpc" /\ ctx[c2].data.Authentication = NoToken
    /\ Unauthenticated(c1) /\ Unauthenticated(c2)
    /\ authReq[c1] = NoPayload /\ authReq[c2] = NoPayload

\* C13: when the authority's reply to the guard carries an identity, the
\* guard allows the call and the context holds exactly that identity where
\* the handler reads it (HTTP: request.user; RPC: data.user); the handler,
\* once run, has read that identity.
C13_IdentityAttached ==
  \A c \in Inv :
    (cause[c] = "reply" /\ reply[c].kind = "user") =>
      /\ guard[c] = "allowed"
      /\ reply[c].user \in AllUsers
      /\ ctx[c].type = "http" => ctx[c].request.user = reply[c].user
      /\ ctx[c].type = "rpc" => ctx[c].data.user = reply[c].user
      /\ handled[c] => currentUser[c] = reply[c].user

C13_Witness ==
  \E c1, c2 \in Inv :
    /\ ctx[c1].type = "http" /\ ctx[c2].type = "rpc"
    /\ handled[c1] /\ handled[c2]
    /\ currentUser[c1] = reply[c1].user /\ currentUser[c2] = reply[c2].user
    /\ currentUser[c1] \in AllUsers /\ currentUser[c2] \in AllUsers
    /\ currentUser[c1] # currentUser[c2]

\* C14: a call with a missing, malformed or expired token is never allowed
\* and its handler never runs; once the guard has resolved such a call, or
\* any call on an error reply or a channel error, it has failed with
\* Unauthenticated and the handler of that call has not run.
C14_FailuresRejected ==
  \A c \in Inv :
    /\ ( guard[c] # "idle" /\ Presented(c) \in {NoToken, "malformed", "expired"} ) =>
          /\ guard[c] \in {"sent", "rejected"}
          /\ guard[c] = "rejected" => Unauthenticated(c)
          /\ ~handled[c]
    /\ ( \/ cause[c] \in {"missing", "channel"}
         \/ cause[c] = "reply" /\ reply[c].kind = "error" ) =>
          /\ Unauthenticated(c)
          /\ ~handled[c]
          /\ pc[c] = "idle"
          /\ currentUser[c] = NoUser

C14_Witness ==
  \E c1, c2 \in Inv :
    /\ Presented(c1) = "expired" /\ cause[c1] = "reply"
    /\ reply[c1].kind = "error" /\ Unauthenticated(c1)
    /\ Presented(c2) = "valid-123" /\ cause[c2] = "channel"
    /\ Unauthenticated(c2) /\ ~handled[c1] /\ ~handled[c2]
\* C15: every call the guard is waiting on eventually resolves, allowed or
\* rejected, also when the authority never replies.
C15_GuardResolves ==
  \A c \in Inv : (guard[c] = "sent") ~> (guard[c] \in {"allowed", "rejected"})

\* C16: createOrder does nothing for a call the guard has not allowed: it
\* is not started, no transaction is started, nothing is inserted and no
\* notification is published for it; every stored order and every
\* notification belongs to an allowed call.
C16_NoSagaWithoutAuth ==
  /\ \A c \in Inv :
       guard[c] # "allowed" =>
         /\ pc[c] = "idle"
         /\ log[c] = << >>
         /\ tx[c] = "none"
         /\ txDocs[c] = << >>
         /\ createdDocument[c] = NoDocument
         /\ NotifiedFor(c) = {}
  /\ \A k \in 1..Len(emitted) : guard[emitted[k].inv] = "allowed"
  /\ \A k \in 1..Len(orders) :
       \E c \in Inv : guard[c] = "allowed" /\ createdDocument[c] = orders[k]

C16_Witness ==
  \E c1, c2 \in Inv :
    /\ Unauthenticated(c1) /\ cause[c1] = "reply" /\ pc[c1] = "idle"
    /\ guard[c2] = "allowed" /\ Did(c2, "emit", TRUE) /\ InStore(c2)
    /\ NotifiedFor(c1) = {} /\ NotifiedFor(c2) # {}

\* C17: any two rejections of the guard are the same exception, whichever
\* check failed.
C17_SameRejection ==
  \A c1, c2 \in Inv :
    (guard[c1] = "rejected" /\ guard[c2] = "rejected") =>
      rejection[c1] = rejection[c2]

\* C18: an HTTP call and an RPC call that present the same token send the
\* same validation request (or none), and when the guard's wait ends the
\* same way for both, with the same reply, they get the same decision, the
\* same exception and the same identity; the identity is in request.user
\* for the one and in data.user for the other, and nowhere else.
C18_HttpRpcSame ==
  \A c1, c2 \in Inv :
    ( /\ ctx[c1].type = "http" /\ ctx[c2].type = "rpc"
      /\ guard[c1] # "idle" /\ guard[c2] # "idle"
      /\ ctx[c1].cookies.Authentication = ctx[c2].data.Authentication ) =>
        /\ authReq[c1] = authReq[c2]
        /\ (cause[c1] = "missing") <=> (cause[c2] = "missing")
        /\ ( /\ cause[c1] = cause[c2]
             /\ cause[c1] = "reply" => reply[c1] = reply[c2] ) =>
               /\ guard[c1] = guard[c2]
               /\ rejection[c1] = rejection[c2]
               /\ ctx[c1].request.user = ctx[c2].data.user
               /\ ctx[c1].data.user = NoUser
               /\ ctx[c2].request.user = NoUser

C18_Witness ==
  \E c1, c2 \in Inv :
    /\ ctx[c1].type = "http" /\ ctx[c2].type = "rpc"
    /\ ctx[c1].cookies.Authentication = "valid-456"
    /\ ctx[c2].data.Authentication = "valid-456"
    /\ guard[c1] = "allowed" /\ guard[c2] = "allowed"
    /\ authReq[c1] = authReq[c2]
    /\ ctx[c1].request.user = ctx[c2].data.user
    /\ ctx[c1].request.user \in AllUsers

\* The user store holds a user with this id.
Exists(store, id) == \E u \in store : u._id = id

\* C19: a validation of a token that fails verification, or whose user is
\* not in the store, replied with an error and no identity; so did every
\* reply the guard of such a call was given.
C19_ErrorNotIdentity ==
  /\ \A v \in validations :
       (~Verify(v.token).ok \/ ~Exists(v.store, Verify(v.token).userId)) =>
         v.reply = [kind |-> "error", user |-> NoUser]
  /\ \A c \in Inv :
       ( /\ reply[c] # NoReply
         /\ \/ Presented(c) \in {"expired", "malformed"}
            \/ Presented(c) = "valid-123" /\ ~Exists(users, 1)
            \/ Presented(c) = "valid-456" /\ ~Exists(users, 2) ) =>
           reply[c] = [kind |-> "error", user |-> NoUser]

C19_Witness ==
  \E v1, v2 \in validations :
    /\ v1.token = "expired" /\ v1.reply.kind = "error"
    /\ v2.token = "valid-456" /\ ~Exists(v2.store, 2)
    /\ Exists(v2.store, 1) /\ v2.reply.kind = "error"

Published == { k \in MsgIds : k <= Len(emitted) }

\* How many times `ev` happened to notification k.
Count(k, ev) == Cardinality({ p \in 1..Len(mlog[k]) : mlog[k][p] = ev })

\* The last thing that happened to notification k.
LastEvent(k) == IF mlog[k] = << >> THEN "none" ELSE mlog[k][Len(mlog[k])]

\* The notifications the broker still holds, in queue order.
Held == { k \in Published : status[k] # "acked" }

C22_BillThenAck ==
  /\ \A k \in MsgIds :
       /\ \A p \in 1..Len(mlog[k]) :
            mlog[k][p] = "ack" =>
              /\ p >= 3
              /\ mlog[k][p - 1] = "bill"
              /\ mlog[k][p - 2] = "deliver"
              /\ p = Len(mlog[k])
       /\ Count(k, "ack") <= 1
       /\ (status[k] = "acked") <=> (Count(k, "ack") = 1)
       /\ status[k] = "acked" =>
            /\ consumer.msg # k
            /\ \A q \in 1..Len(inbox) : inbox[q] # k
  /\ Len(billingQueue) = Cardinality(Held)
  /\ \A k \in Held : billingQueue[QueuePos(k)] = emitted[k].msg

C22_Witness ==
  \E k, j \in Published :
    /\ mlog[k] = << "deliver", "bill", "ack" >>
    /\ status[j] = "unacked"
    /\ billingQueue = << emitted[j].msg >>

\* C23 (as claimed): after the consumer died while billing a notification,
\* that notification is never delivered again.
C23_LostAfterCrash ==
  \A k \in MsgIds :
    \A p \in 2..Len(mlog[k]) :
      (mlog[k][p] = "crash" /\ mlog[k][p - 1] = "deliver") =>
        \A q \in (p + 1)..Len(mlog[k]) : mlog[k][q] # "deliver"

\* C23 (amended): a notification the consumer was handling when it died was
\* not acknowledged: it is still in the queue, ready to be delivered again,
\* and is handed to no handler before the broker delivers it again.
C23_KeptAfterCrash ==
  \A k \in MsgIds :
    LastEvent(k) = "crash" =>
      /\ status[k] = "ready"
      /\ k \in Held
      /\ billingQueue[QueuePos(k)] = emitted[k].msg
      /\ consumer.msg # k
      /\ \A q \in 1..Len(inbox) : inbox[q] # k

C23_Witness ==
  \E k \in Published :
    mlog[k] = << "deliver", "crash", "deliver", "bill", "ack" >>

\* C24: a delivery is billed at most once, and a notification is delivered
\* again, and so billed again, only after the consumer's channel closed
\* while the notification was unacknowledged, never after its
\* acknowledgement.
C24_BilledOncePerDelivery ==
  \A k \in MsgIds :
    /\ Count(k, "bill") + Count(k, "billfail") <= Count(k, "deliver")
    /\ Count(k, "deliver") <= 1 + Count(k, "crash") + Count(k, "requeue")
    /\ \A p \in 1..Len(mlog[k]) :
         /\ (mlog[k][p] = "deliver" /\ p > 1) =>
              /\ mlog[k][p - 1] \in {"crash", "requeue"}
              /\ \A q \in 1..p : mlog[k][q] # "ack"
         /\ mlog[k][p] \in {"bill", "billfail"} =>
              (p > 1 /\ mlog[k][p - 1] = "deliver")

C24_Witness ==
  \E k \in Published :
    mlog[k] = << "deliver", "bill", "crash", "deliver", "bill", "ack" >>
\* C25: getOrders is an unfiltered read. Every call returns the sequence of
\* all committed orders of that moment, in store order; on an empty store
\* the call returns the empty sequence, never an error; and a listing shows
\* no order that is not committed.
C25_UnfilteredRead ==
  /\ [](/\ listKind # "error"
        /\ listKind = "orders" =>
             /\ Len(listed) <= Len(orders)
             /\ \A k \in 1..Len(listed) : listed[k] = orders[k])
  /\ [][(listKind' # listKind \/ listed' # listed) =>
          /\ listKind' = "orders"
          /\ listed' = orders
          /\ orders = << >> => listed' = << >>]_vars

C25_Witness ==
  /\ listKind = "orders"
  /\ listed = << >>
  /\ orders = << >>
  /\ \E i \in Inv : txDocs[i] # << >>
\* C26: a createOrder that returned gives its caller an order whose name,
\* price and phoneNumber are those of the request and whose id is freshly
\* assigned, shared with no document of another invocation and with no
\* other order of the store; the notification it published carries
\* { request: r } with the request as received, not the stored order.
C26_ReturnedOrderAndPayload ==
  \A i \in Inv :
    pc[i] = "returned" =>
      /\ result[i].kind = "order"
      /\ result[i].order = createdDocument[i]
      /\ result[i].order.name = request[i].name
      /\ result[i].order.price = request[i].price
      /\ result[i].order.phoneNumber = request[i].phoneNumber
      /\ result[i].order._id # NoDocument._id
      /\ \A j \in Inv \ {i} :
           createdDocument[j]._id # result[i].order._id
      /\ \A d \in Range(orders) :
           d._id = result[i].order._id => d = result[i].order
      /\ NotifiedFor(i) # {}
      /\ \A k \in NotifiedFor(i) :
           /\ emitted[k].msg.pattern = ORDER_CREATED
           /\ emitted[k].msg.data = [request |-> request[i]]
           /\ emitted[k].msg.data.request \in Requests

C26_Witness ==
  \E i, j \in Inv :
    /\ i # j
    /\ pc[i] = "returned" /\ pc[j] = "returned"
    /\ request[i] = request[j]
    /\ result[i].order._id # result[j].order._id
    /\ InStore(i) /\ InStore(j)
\* C27: concurrent createOrder invocations are independent. A session holds
\* only the document of its own invocation; an order whose commit completed
\* is in the store whatever became of the other invocations; and a step
\* that changes the transaction of one invocation, or makes it fail, leaves
\* the transaction, the progress and the result of every other invocation
\* as they were and removes no order of theirs from the store.
C27_Independent ==
  /\ [](\A i \in Inv :
          /\ \A k \in 1..Len(txDocs[i]) : txDocs[i][k] = createdDocument[i]
          /\ commit[i] = "ok" => InStore(i)
          /\ InStore(i) => tx[i] = "committed")
  /\ [][\A j \in Inv :
          (\/ tx'[j] # tx[j]
           \/ txDocs'[j] # txDocs[j]
           \/ commit'[j] # commit[j]
           \/ (pc'[j] # pc[j] /\ pc'[j] \in {"abort", "threw"})) =>
            \A i \in Inv \ {j} :
              /\ tx'[i] = tx[i]
              /\ txDocs'[i] = txDocs[i]
              /\ commit'[i] = commit[i]
              /\ pc'[i] = pc[i]
              /\ result'[i] = result[i]
              /\ InStore(i) => InStore(i)']_vars

C27_Witness ==
  \E i, j \in Inv :
    /\ i # j
    /\ pc[j] = "threw" /\ tx[j] = "aborted" /\ ~InStore(j)
    /\ Did(j, "create", TRUE) /\ Did(j, "emit", FALSE)
    /\ commit[i] = "ok" /\ InStore(i) /\ Listed(i)
    /\ listed = orders
\* C28: an order is created exactly once and is never updated or removed.
\* No two orders of the store share an id, every order of the store is the
\* one document of a committed invocation, and every step leaves each
\* order already in the store in its place with its fields unchanged: the
\* store only grows.
C28_OrdersOnlyGrow ==
  /\ [](/\ \A k1, k2 \in 1..Len(orders) :
             orders[k1]._id = orders[k2]._id => k1 = k2
        /\ \A k \in 1..Len(orders) :
             \E i \in Inv : tx[i] = "committed" /\ orders[k] = createdDocument[i]
        /\ Len(orders) = Cardinality({ i \in Inv : tx[i] = "committed" }))
  /\ [][/\ Len(orders') >= Len(orders)
        /\ \A k \in 1..Len(orders) : orders'[k] = orders[k]]_vars

C28_Witness ==
  /\ Len(orders) = MaxInv
  /\ \A i \in Inv : tx[i] = "committed" /\ pc[i] = "returned"
  /\ listKind = "orders" /\ listed # << >> /\ Len(listed) < Len(orders)
\* C29 (as claimed): every notification published to the billing queue is
\* marked persistent.
C29_PublishedPersistent ==
  \A k \in 1..Len(emitted) : emitted[k].persistent
\* C30: the saga has no timeout. While an invocation awaits a store call
\* (startTransaction, create, abortTransaction) or the publish confirmation,
\* it has handed nothing to its caller and its transaction is neither
\* committed nor aborted; and it leaves the awaited call only when that call
\* completes (or the process dies), so a call that never completes keeps
\* it there for ever.
Awaiting(i) == pc[i] \in {"startTransaction", "create", "emit", "abort"}

C30_NoTimeout ==
  /\ [](\A i \in Inv :
          Awaiting(i) =>
            /\ result[i].kind = "none"
            /\ tx[i] \notin {"committed", "aborted"}
            /\ commit[i] = "none"
            /\ ~InStore(i))
  /\ [][\A i \in Inv :
          (Awaiting(i) /\ pc'[i] # pc[i]) =>
            /\ Len(log'[i]) = Len(log[i]) + 1
            /\ log'[i][Len(log'[i])].step \in {pc[i], "crash"}
            /\ log'[i][Len(log'[i])].step = "crash" <=> pc'[i] = "crashed"]_vars

C30_Witness ==
  \E i, j \in Inv :
    /\ pc[i] = "emit" /\ tx[i] = "open" /\ result[i].kind = "none"
    /\ txDocs[i] # << >> /\ ~InStore(i)
    /\ pc[j] = "returned" /\ InStore(j)
    /\ createdDocument[i]._id < createdDocument[j]._id
\* C31: the token the authority verifies is the token the guard extracted
\* from the call, for HTTP and for RPC calls: the validation request carries
\* it in the field Authentication, every token the authority verified is
\* the token of a call that sent a request, and the reply a call gets is
\* the one the authority computed for that call's own token.
C31_SameToken ==
  /\ \A c \in Inv :
       authReq[c] # NoPayload =>
         /\ ctx[c].type \in {"http", "rpc"}
         /\ getAuthentication(ctx[c]) # NoToken
         /\ authReq[c] = ValidationRequest(getAuthentication(ctx[c]))
         /\ reply[c] # NoReply =>
              \E v \in validations :
                /\ v.token = getAuthentication(ctx[c])
                /\ v.reply = reply[c]
  /\ \A v \in validations :
       \E c \in Inv :
         /\ authReq[c] # NoPayload
         /\ v.token = getAuthentication(ctx[c])

C31_Witness ==
  \E c, d \in Inv :
    /\ ctx[c].type = "http" /\ ctx[d].type = "rpc"
    /\ getAuthentication(ctx[c]) = "valid-123"
    /\ getAuthentication(ctx[d]) = "valid-456"
    /\ reply[c].kind = "user" /\ reply[c].user._id = 1
    /\ reply[d].kind = "user" /\ reply[d].user._id = 2
    /\ { v.token : v \in validations } = {"valid-123", "valid-456"}
\* The createUser calls whose email belonged to a stored user from the start.
TakenEmail(u) == \E x \in AllUsers : x.email = ureq[u].email

\* The stored users with the email of createUser call u.
WithEmailOf(u) == { x \in users : x.email = ureq[u].email }

\* C32 (as claimed): a createUser whose email already belongs to a stored
\* user fails with UnprocessableEntityException and inserts no user, also
\* when the lookup of the existing email failed with a store error.
C32_TakenEmailRejected ==
  \A u \in UserCalls :
    (TakenEmail(u) /\ upc[u] \notin {"idle", "validate"}) =>
      /\ upc[u] = "threw"
      /\ uresult[u].exception =
           UnprocessableEntityException("Email already exists.")
      /\ \A v \in UserCalls : TakenEmail(v) => Cardinality(WithEmailOf(v)) = 1
\* C33 (as claimed): a login that fails, because the password does not
\* match or because no user has the email, fails with
\* UnauthorizedException; a login returns the user only when the email is
\* a stored user's and the password matches.
C33_LoginUnauthorized ==
  /\ login.result.kind = "error" =>
       login.result.exception =
         UnauthorizedException("Credentials are not valid.")
  /\ login.result.kind = "user" =>
       /\ login.result.user \in users
       /\ login.result.user.email = login.email
       /\ compare(login.password, login.result.user.password)
\* C36 (as claimed): whatever the interleaving of concurrent createUser
\* calls, no two stored users share an email.
C36_UniqueEmails ==
  \A x, y \in users : x.email = y.email => x = y
\* The identity the authority resolves for the token call c itself carries.
OwnIdentity(c) ==
  ValidateUser(users, [Authentication |-> getAuthentication(ctx[c])]).reply.user

\* C34: under every interleaving of concurrent guarded calls, the identity
\* in a call's context is the one resolved from that call's own token,
\* never the one resolved for the token of another call; so is the
\* identity its handler reads.
C34_OwnIdentityOnly ==
  \A c \in Inv :
    /\ ctx[c].request.user \in {NoUser, OwnIdentity(c)}
    /\ ctx[c].data.user \in {NoUser, OwnIdentity(c)}
    /\ guard[c] = "allowed" =>
         /\ OwnIdentity(c) # NoUser
         /\ getCurrentUserByContext(ctx[c]) = OwnIdentity(c)
    /\ handled[c] => currentUser[c] = OwnIdentity(c)

C34_Witness ==
  \E c, d \in Inv :
    /\ ctx[c].type = "http" /\ ctx[d].type = "http"
    /\ Presented(c) = "valid-456" /\ Presented(d) = "valid-123"
    /\ guard[c] = "allowed" /\ guard[d] = "allowed"
    /\ ctx[c].request.user._id = 2 /\ ctx[d].request.user._id = 1
    /\ handled[c] /\ ~handled[d]
\* C37: a call the guard rejected (missing token, error reply, channel
\* error) has its context as it arrived: no user was written to the HTTP
\* request or to the RPC payload; a context carries an identity only after
\* a reply with a user.
C37_RejectionLeavesContext ==
  \A c \in Inv :
    /\ guard[c] = "rejected" =>
         /\ ctx[c] = NewContext(ctx[c].type, Presented(c))
         /\ ctx[c].request.user = NoUser
         /\ ctx[c].data.user = NoUser
    /\ ctx[c] # NewContext(ctx[c].type, Presented(c)) =>
         /\ cause[c] = "reply"
         /\ reply[c].kind = "user"
         /\ guard[c] = "allowed"

C37_Witness ==
  \E c, d \in Inv :
    /\ guard[c] = "rejected" /\ cause[c] = "missing" /\ ctx[c].type = "rpc"
    /\ guard[d] = "rejected" /\ cause[d] = "reply" /\ ctx[d].type = "http"
    /\ reply[d].kind = "error" /\ Presented(d) = "expired"
    /\ ctx[c].data.user = NoUser /\ ctx[d].request.user = NoUser
\* C35: in one createOrder invocation abortTransaction is called only if
\* the insert or the publish failed and commitTransaction only if both
\* succeeded; the two are never both called on the session of the
\* invocation, and neither is called more than once.
C35_CommitXorAbort ==
  \A i \in Inv :
    /\ Attempts(i, "abort") > 0 =>
         (Did(i, "create", FALSE) \/ Did(i, "emit", FALSE))
    /\ Attempts(i, "commit") > 0 =>
         (Did(i, "create", TRUE) /\ Did(i, "emit", TRUE))
    /\ Attempts(i, "commit") = 0 \/ Attempts(i, "abort") = 0
    /\ Attempts(i, "commit") <= 1
    /\ Attempts(i, "abort") <= 1
    /\ pc[i] = "abort" => (Attempts(i, "abort") = 0 /\ Attempts(i, "commit") = 0)
    /\ pc[i] = "commit" => (Attempts(i, "abort") = 0 /\ Attempts(i, "commit") = 0)

C35_Witness ==
  \E i, j \in Inv :
    /\ Attempts(i, "commit") = 1 /\ Attempts(i, "abort") = 0
    /\ commit[i] = "failed" /\ pc[i] = "returned"
    /\ Attempts(j, "abort") = 1 /\ Attempts(j, "commit") = 0
    /\ Did(j, "abort", FALSE) /\ pc[j] = "threw"
\* C38: a call whose execution context is neither HTTP nor RPC is rejected
\* with Unauthenticated at once, whatever it carries (a valid token
\* included), and no validation request is sent for it.
C38_OtherContextRejected ==
  \A c \in Inv :
    ctx[c].type \notin {"http", "rpc"} =>
      /\ guard[c] = "rejected"
      /\ Unauthenticated(c)
      /\ rejection[c] = UnauthorizedException(NoValueMessage)
      /\ cause[c] = "missing"
      /\ authReq[c] = NoPayload
      /\ reply[c] = NoReply
      /\ ctx[c] = NewContext(ctx[c].type, Presented(c))
      /\ ~handled[c]

C38_Witness ==
  \E c \in Inv :
    /\ ctx[c].type = "ws"
    /\ Presented(c) = "valid-123"
    /\ Verify(Presented(c)).ok
    /\ guard[c] = "rejected"
    /\ validations = {}
    /\ \A d \in Inv : authReq[d] = NoPayload
\* C39: the order-listing endpoint is open. GET /orders can be served in
\* every state, whether or not any call presented a token or was allowed,
\* and serving it sends no validation request and consults no guard: the
\* step that produces a listing leaves requests, replies, validations and
\* guard decisions as they were.
C39_ListingOpen ==
  /\ [](ENABLED DoGetOrders)
  /\ [][(listKind' # listKind \/ listed' # listed) =>
          /\ listKind' = "orders"
          /\ authReq' = authReq
          /\ validations' = validations
          /\ reply' = reply
          /\ guard' = guard]_vars

C39_Witness ==
  \E c \in Inv :
    /\ guard[c] = "allowed" /\ InStore(c) /\ Listed(c)
    /\ listKind = "orders" /\ listed = orders
    /\ Cardinality(validations) = 1
    /\ \A d \in Inv \ {c} :
         guard[d] = "rejected" /\ cause[d] = "missing" /\ authReq[d] = NoPayload
====
